---- MODULE Spec2Model ----
(***************************************************************************)
(* Model of backend/websocket_server.py: the AssessmentServer that bridges *)
(* the frontend protocol and the IMU sensor stream, its IMUSystem and its  *)
(* JumpLandingRecorder.                                                    *)
(*                                                                         *)
(* Units.  Wall-clock time (time.time()) is counted in deciseconds, frame  *)
(* timestamps (data["t"]) in milliseconds, angles in tenths of a degree,   *)
(* angular rates in deg/s, kept as the pair <<rate about the flexion axis,  *)
(* rate about the abduction axis>>.                                        *)
(*                                                                         *)
(* Orientations.  A quaternion is kept as the pair <<roll, pitch>> of the  *)
(* rotation it encodes (tenths of a degree), the two components that       *)
(* quaternion_to_euler_xyz hands to compute_knee_angles; products add the  *)
(* components and conjugation negates them.  ahrs.Madgwick.updateIMU is a  *)
(* library call: it is modelled by its gyroscope integration step.         *)
(*                                                                         *)
(* Optional values.  Python's None is the empty tuple <<>>, a present      *)
(* value x is <<x>>.                                                       *)
(*                                                                         *)
(* Steps.  A handler runs without interruption between two "await          *)
(* ws.recv()" of the sensor stream: opening the sensor connection and      *)
(* sending to the frontend do not let another coroutine run in between.    *)
(* The frontend stays connected; the sensor stream may close or deliver    *)
(* an unparsable frame at any receive.  The per-sample statistics keep     *)
(* min, max, range and the sums the means are taken from.                  *)
(***************************************************************************)
EXTENDS Integers, Sequences, FiniteSets, TLC

VARIABLES
    now,                \* time.time(), deciseconds
    connState,          \* per frontend connection: "new", "open", "closed"
    inbox,              \* per connection: commands sent by the frontend, not yet handled
    ncmds,              \* number of commands the frontends have sent
    windows,            \* per connection: the sensor-stream windows its handlers hold open
    sent,               \* per connection: messages sent to the frontend by the current handler
    handler,            \* per connection: the command being handled and how it ended
    frontend_client,    \* AssessmentServer.frontend_client
    static_samples,     \* AssessmentServer.static_samples
    flexion_samples,    \* AssessmentServer.flexion_samples
    filters,            \* IMUSystem.filters (the ids that have a filter)
    quaternions,        \* IMUSystem.quaternions
    q_sensor_to_anat,   \* IMUSystem.q_sensor_to_anat
    calibrated,         \* IMUSystem.calibrated
    neutral_knee_left,  \* IMUSystem.neutral_knee_left
    neutral_knee_right, \* IMUSystem.neutral_knee_right
    gyr_norm_all,       \* IMUSystem.gyr_norm_all
    recording_data,     \* JumpLandingRecorder.recording_data
    recording_start,    \* JumpLandingRecorder.recording_start
    is_recording,       \* JumpLandingRecorder.is_recording
    recOp               \* the last recorder or IMUSystem call: its name, arguments, result and the state before it

serverVars == <<connState, inbox, ncmds, windows, sent, handler, frontend_client>>
calibVars == <<static_samples, flexion_samples>>
imuVars == <<filters, quaternions, q_sensor_to_anat, calibrated,
             neutral_knee_left, neutral_knee_right, gyr_norm_all>>
recVars == <<recording_data, recording_start, is_recording>>
vars == <<now, serverVars, calibVars, imuVars, recVars, recOp>>

----------------------------------------------------------------------------
(* Bounds of the model *)

NumConns == 2       \* frontend connections the server accepts
MaxCmds == 3        \* commands the frontends send in total
MaxInbox == 1       \* commands a frontend sends ahead of the handler
MaxFrames == 2      \* frames the sensor stream delivers to one window
MaxTicks == 2       \* wall-clock horizon, in units of TickUnit deciseconds
MaxRec == 2         \* recorder calls that change the buffer, recorder specification

(* Program constants *)

DurationS == 10     \* duration_s=10.0 of every window
DeadzoneDeg == 1    \* th=1.0 of _deadzone
ReanchorDeg == 5    \* the "< 5" of maybe_reanchor_neutral
AlphaPct == 2       \* alpha = 0.02 of maybe_reanchor_neutral
DefaultDtMs == 10   \* dt = 0.01 of handle_start_task

MODE_1_IMUS == <<0, 1, 2, 3>>

None == <<>>
Some(x) == <<x>>

Conns == 1..NumConns
ImuIds == {MODE_1_IMUS[k] : k \in 1..Len(MODE_1_IMUS)}

Abs(x) == IF x < 0 THEN -x ELSE x

\* Python's int(): truncation towards zero of a / b, b > 0
DivTrunc(a, b) == IF a >= 0 THEN a \div b ELSE -((-a) \div b)

RECURSIVE SumSeq(_)
SumSeq(s) == IF s = <<>> THEN 0 ELSE Head(s) + SumSeq(Tail(s))

RECURSIVE MaxSeq(_)
MaxSeq(s) == IF Len(s) = 1 THEN Head(s)
             ELSE LET m == MaxSeq(Tail(s)) IN IF Head(s) > m THEN Head(s) ELSE m

RECURSIVE MinSeq(_)
MinSeq(s) == IF Len(s) = 1 THEN Head(s)
             ELSE LET m == MinSeq(Tail(s)) IN IF Head(s) < m THEN Head(s) ELSE m

----------------------------------------------------------------------------
(* Sensor-stream frames: {t, imus: [{id, ax, ay, az, gx, gy, gz}, ...]} *)

TickUnit == 60                  \* deciseconds
TickSteps == {TickUnit}
FrameTimes == {0, DurationS * 1000 + 1}
TiltVal == 900                  \* a shank held at 90 degrees to the thigh
GyrVal == 50                    \* deg/s

\* One sensor's reading: acc is the tilt of the measured gravity direction in
\* the sensor frame, gyr the angular rates about the flexion and the abduction
\* axis.
Reading(i, moving) ==
    [id |-> i,
     acc |-> IF moving /\ i \in {0, 1} THEN TiltVal ELSE 0,
     gyr |-> IF moving THEN <<GyrVal, 0>> ELSE <<0, 0>>]

\* all four sensors at rest, all four moving, sensor 3 silent
FrameImus ==
    {[k \in 1..4 |-> Reading(MODE_1_IMUS[k], m)] : m \in BOOLEAN}
        \cup {[k \in 1..3 |-> Reading(MODE_1_IMUS[k], FALSE)]}

Frames == {[t |-> t, imus |-> ims] : t \in FrameTimes, ims \in FrameImus}

----------------------------------------------------------------------------
(* quaternion utils, lines 24-38 *)

IdentityQ == <<0, 0>>

\* an angle brought back to (-180, 180] degrees
WrapAngle(a) ==
    LET m == a % 3600 IN IF m > 1800 THEN m - 3600 ELSE m

quaternion_conjugate(q) == <<WrapAngle(-q[1]), WrapAngle(-q[2])>>

quaternion_multiply(q, r) == <<WrapAngle(q[1] + r[1]), WrapAngle(q[2] + r[2])>>

----------------------------------------------------------------------------
(* axis estimation, lines 73-103 *)

SamplesOf(samples, imu_id) == SelectSeq(samples, LAMBDA s : s.id = imu_id)

\* compute_gravity_axis / compute_flexion_axis raise ValueError on no sample
HasSamples(samples, imu_id) == SamplesOf(samples, imu_id) # <<>>

compute_gravity_axis(static_samples_, imu_id) ==
    LET accs == [k \in 1..Len(SamplesOf(static_samples_, imu_id)) |->
                    SamplesOf(static_samples_, imu_id)[k].acc]
    IN  DivTrunc(SumSeq(accs), Len(accs))

\* the dominant component of the mean-centred angular rates
compute_flexion_axis(flexion_samples_, imu_id) ==
    LET gyrs == [k \in 1..Len(SamplesOf(flexion_samples_, imu_id)) |->
                    SamplesOf(flexion_samples_, imu_id)[k].gyr[1]]
        mean == DivTrunc(SumSeq(gyrs), Len(gyrs))
    IN  MaxSeq([k \in 1..Len(gyrs) |-> Abs(gyrs[k] - mean)])

\* build_anatomical_frame followed by rotm_to_quat: the sensor-to-anatomical
\* rotation undoes the measured tilt of the long axis and the heading of the
\* flexion axis
AnatomicalQuat(long_axis, flex_axis) == <<WrapAngle(long_axis), WrapAngle(flex_axis)>>

----------------------------------------------------------------------------
(* IMUSystem, lines 106-233 *)

\* init_filters: a fresh filter and the identity quaternion for every id
init_filters_filters(fs, imu_ids) == fs \cup imu_ids

init_filters_quaternions(qs, imu_ids) ==
    [i \in (DOMAIN qs) \cup imu_ids |-> IF i \in imu_ids THEN IdentityQ ELSE qs[i]]

\* Madgwick.updateIMU: the gyroscope rates integrated over dt
updateIMU(q_prev, gyr, dt_ms) ==
    <<WrapAngle(q_prev[1] + DivTrunc(gyr[1] * dt_ms, 100)),
      WrapAngle(q_prev[2] + DivTrunc(gyr[2] * dt_ms, 100))>>

\* an update_filter without the "if imu_id not in self.filters" guard, which
\* integrates the reading of any id from the identity
update_filter_unguarded(fs, qs, imu_id, acc, gyr, dt_ms) ==
    LET q_prev == IF imu_id \in DOMAIN qs THEN qs[imu_id] ELSE IdentityQ
    IN  [i \in (DOMAIN qs) \cup {imu_id} |->
            IF i = imu_id THEN updateIMU(q_prev, gyr, dt_ms) ELSE qs[i]]

\* update_filter: the quaternions after one reading
update_filter(fs, qs, imu_id, acc, gyr, dt_ms) ==
    IF imu_id \notin fs THEN qs
    ELSE LET q_prev == IF imu_id \in DOMAIN qs THEN qs[imu_id] ELSE IdentityQ
         IN  [i \in (DOMAIN qs) \cup {imu_id} |->
                 IF i = imu_id THEN updateIMU(q_prev, gyr, dt_ms) ELSE qs[i]]

\* the "for imu_data in data['imus']" loop of handle_start_task
RECURSIVE UpdateAll(_, _, _, _)
UpdateAll(fs, qs, imus, dt_ms) ==
    IF imus = <<>> THEN qs
    ELSE UpdateAll(fs,
                   update_filter(fs, qs, Head(imus).id, Head(imus).acc,
                                 Head(imus).gyr, dt_ms),
                   Tail(imus), dt_ms)

get_segment_orientation_anat(qs, qsa, imu_id) ==
    LET q_ws == IF imu_id \in DOMAIN qs THEN qs[imu_id] ELSE IdentityQ
        q_sa == IF imu_id \in DOMAIN qsa THEN qsa[imu_id] ELSE IdentityQ
    IN  quaternion_multiply(q_ws, q_sa)

compute_relative_quaternion(q_proximal, q_distal) ==
    quaternion_multiply(quaternion_conjugate(q_proximal), q_distal)

\* quaternion_to_euler_xyz: roll and pitch, tenths of a degree
quaternion_to_euler_xyz(q) == [roll |-> q[1], pitch |-> q[2]]

\* a dead zone that also swallows the threshold itself
_deadzone_inclusive(x, th) == IF Abs(x) <= th THEN 0 ELSE x

_deadzone(x, th) == IF Abs(x) < th THEN 0 ELSE x

\* capture_neutral_knees: the pair (neutral_knee_left, neutral_knee_right)
capture_neutral_knees(qs, qsa) ==
    [left  |-> compute_relative_quaternion(get_segment_orientation_anat(qs, qsa, 2),
                                           get_segment_orientation_anat(qs, qsa, 0)),
     right |-> compute_relative_quaternion(get_segment_orientation_anat(qs, qsa, 3),
                                           get_segment_orientation_anat(qs, qsa, 1))]

\* (1 - alpha) * q + alpha * neutral, renormalised
Blend(q, n) ==
    <<DivTrunc((100 - AlphaPct) * q[1] + AlphaPct * n[1], 100),
      DivTrunc((100 - AlphaPct) * q[2] + AlphaPct * n[2], 100)>>

\* a gate with non-strict comparisons
ReanchorGateNonStrict(q_rel_left, q_rel_right, gnorm, nl, nr) ==
    LET el == quaternion_to_euler_xyz(q_rel_left)
        er == quaternion_to_euler_xyz(q_rel_right)
    IN  /\ Abs(el.roll) <= ReanchorDeg * 10
        /\ Abs(er.roll) <= ReanchorDeg * 10
        /\ Abs(el.pitch) <= ReanchorDeg * 10
        /\ Abs(er.pitch) <= ReanchorDeg * 10
        /\ gnorm <= ReanchorDeg
        /\ nl # None
        /\ nr # None

\* the "if" of maybe_reanchor_neutral
ReanchorGate(q_rel_left, q_rel_right, gnorm, nl, nr) ==
    LET el == quaternion_to_euler_xyz(q_rel_left)
        er == quaternion_to_euler_xyz(q_rel_right)
    IN  /\ Abs(el.roll) < ReanchorDeg * 10
        /\ Abs(er.roll) < ReanchorDeg * 10
        /\ Abs(el.pitch) < ReanchorDeg * 10
        /\ Abs(er.pitch) < ReanchorDeg * 10
        /\ gnorm < ReanchorDeg
        /\ nl # None
        /\ nr # None

maybe_reanchor_neutral(q_rel_left, q_rel_right, gnorm, nl, nr) ==
    IF ReanchorGate(q_rel_left, q_rel_right, gnorm, nl, nr)
    THEN [left |-> Blend(q_rel_left, nl[1]), right |-> Blend(q_rel_right, nr[1])]
    ELSE [left |-> q_rel_left, right |-> q_rel_right]

\* compute_knee_angles: q_rel_left and q_rel_right, taken relative to the
\* neutral pose, before maybe_reanchor_neutral
KneeRelative(nl, nr, qs, qsa) ==
    [left  |-> quaternion_multiply(
                 quaternion_conjugate(nl[1]),
                 compute_relative_quaternion(
                     get_segment_orientation_anat(qs, qsa, 2),
                     get_segment_orientation_anat(qs, qsa, 0))),
     right |-> quaternion_multiply(
                 quaternion_conjugate(nr[1]),
                 compute_relative_quaternion(
                     get_segment_orientation_anat(qs, qsa, 3),
                     get_segment_orientation_anat(qs, qsa, 1)))]

\* a right flexion emitted with the sign of its decoded value
flex_r_keep(flex_r) == flex_r

\* "flex_r = -flex_r"
flex_r_negated(flex_r) == -flex_r

\* the dict compute_knee_angles returns for the relative quaternions it is left
\* with after maybe_reanchor_neutral
KneeAngles(re) ==
    LET el == quaternion_to_euler_xyz(re.left)
        er == quaternion_to_euler_xyz(re.right)
    IN  [left_flexion    |-> _deadzone(el.roll, DeadzoneDeg * 10),
         right_flexion   |-> flex_r_negated(_deadzone(er.roll, DeadzoneDeg * 10)),
         left_abduction  |-> _deadzone(el.pitch, DeadzoneDeg * 10),
         right_abduction |-> _deadzone(er.pitch, DeadzoneDeg * 10)]

\* a compute_knee_angles without its two guards, which takes an absent neutral
\* pose for the identity
compute_knee_angles_unguarded(cal, nl, nr, qs, qsa, gnorm) ==
    LET nl1 == IF nl = None THEN Some(IdentityQ) ELSE nl
        nr1 == IF nr = None THEN Some(IdentityQ) ELSE nr
        rel == KneeRelative(nl1, nr1, qs, qsa)
    IN  Some(KneeAngles(maybe_reanchor_neutral(rel.left, rel.right, gnorm, nl1, nr1)))

\* compute_knee_angles: None, or the four angles
compute_knee_angles(cal, nl, nr, qs, qsa, gnorm) ==
    IF ~cal THEN None
    ELSE IF nl = None \/ nr = None THEN None
    ELSE LET rel == KneeRelative(nl, nr, qs, qsa)
         IN  Some(KneeAngles(maybe_reanchor_neutral(rel.left, rel.right, gnorm, nl, nr)))

\* a reanchoring that writes the blend back into the stored neutral poses
compute_knee_angles_stored_blend(nl, nr, qsa) ==
    [nl |-> IF nl = None THEN None ELSE Some(Blend(nl[1], IdentityQ)),
     nr |-> IF nr = None THEN None ELSE Some(Blend(nr[1], IdentityQ)),
     q_sa |-> qsa]

\* neutral_knee_left, neutral_knee_right and q_sensor_to_anat after
\* compute_knee_angles: it and maybe_reanchor_neutral assign none of them, the
\* blend goes to the local q_rel_left / q_rel_right
compute_knee_angles_stored(nl, nr, qsa) == [nl |-> nl, nr |-> nr, q_sa |-> qsa]

\* run_anatomical_calibration: the loop over MODE_1_IMUS stores each q_sa as it
\* goes and stops at the first id that raises; exc is "" when none did.
RECURSIVE CalibrationLoop(_, _, _, _)
CalibrationLoop(qsa, ss, fsamp, k) ==
    IF k > Len(MODE_1_IMUS) THEN [q_sa |-> qsa, exc |-> ""]
    ELSE LET imu_id == MODE_1_IMUS[k] IN
         IF ss = None THEN [q_sa |-> qsa, exc |-> "TypeError"]
         ELSE IF ~HasSamples(ss[1], imu_id) THEN [q_sa |-> qsa, exc |-> "ValueError"]
         ELSE IF ~HasSamples(fsamp[1], imu_id) THEN [q_sa |-> qsa, exc |-> "ValueError"]
         ELSE CalibrationLoop(
                [i \in (DOMAIN qsa) \cup {imu_id} |->
                    IF i = imu_id
                    THEN AnatomicalQuat(-compute_gravity_axis(ss[1], imu_id),
                                        compute_flexion_axis(fsamp[1], imu_id))
                    ELSE qsa[i]],
                ss, fsamp, k + 1)

\* a calibration that leaves the loop at an id without samples and carries on
\* to "self.calibrated = True" instead of raising
run_anatomical_calibration_lenient(qsa, ss, fsamp) ==
    LET res == CalibrationLoop(qsa, ss, fsamp, 1)
    IN  [q_sa |-> res.q_sa, exc |-> IF res.exc = "ValueError" THEN "" ELSE res.exc]

run_anatomical_calibration(qsa, ss, fsamp) == CalibrationLoop(qsa, ss, fsamp, 1)

----------------------------------------------------------------------------
(* JumpLandingRecorder, lines 273-359 *)

\* a start_recording that forgets to clear the buffer
start_recording_data_keep(data) == data

\* start_recording: the buffer it leaves
start_recording_data(data) == <<>>

\* an add_sample without the "if self.is_recording" guard
add_sample_unguarded(data, start, flag, clock, timestamp, angles) ==
    Append(data, [timestamp       |-> timestamp,
                  time_elapsed_ms |-> IF start = None THEN 0 ELSE (clock - start[1]) * 100,
                  angles          |-> angles])

\* add_sample: the buffer it leaves; time_elapsed_ms = int((time.time() - recording_start) * 1000)
add_sample(data, start, flag, clock, timestamp, angles) ==
    IF flag
    THEN Append(data, [timestamp       |-> timestamp,
                       time_elapsed_ms |-> (clock - start[1]) * 100,
                       angles          |-> angles])
    ELSE data

\* stop_recording raises TypeError at "time.time() - self.recording_start" when
\* no recording was ever started (the flag is cleared before that line)
stop_recording_exc(start) == IF start = None THEN "TypeError" ELSE ""

Channel(data, name) ==
    [k \in 1..Len(data) |->
        CASE name = "left_flexion"    -> data[k].angles.left_flexion
          [] name = "right_flexion"   -> data[k].angles.right_flexion
          [] name = "left_abduction"  -> data[k].angles.left_abduction
          [] name = "right_abduction" -> data[k].angles.right_abduction]

\* min, max, range and peak_to_peak of one channel; sum / n is its mean
ChannelStats(xs) ==
    [min |-> MinSeq(xs), max |-> MaxSeq(xs), sum |-> SumSeq(xs), n |-> Len(xs),
     range |-> MaxSeq(xs) - MinSeq(xs), peak_to_peak |-> MaxSeq(xs) - MinSeq(xs)]

\* symmetry metrics taken from the extremes of the two series instead of
\* sample by sample
Symmetry_extremes(ls, rs) ==
    [difference_sum |-> SumSeq(ls) - SumSeq(rs), n |-> Len(ls),
     difference_max |-> Abs(MaxSeq(ls) - MinSeq(rs))]

\* mean(left) - mean(right) as (sum(left) - sum(right)) / n, and max |left - right|
Symmetry(ls, rs) ==
    [difference_sum |-> SumSeq(ls) - SumSeq(rs), n |-> Len(ls),
     difference_max |-> MaxSeq([k \in 1..Len(ls) |-> Abs(ls[k] - rs[k])])]

SpanMs(data) == data[Len(data)].time_elapsed_ms - data[1].time_elapsed_ms

\* sampling_rate_hz = len / (span / 1000), kept as the fraction num / den
SamplingRate(data) == [num |-> Len(data) * 1000, den |-> SpanMs(data)]

\* the "statistics" dict of compute_statistics, for a buffer whose first and
\* last entries differ in time_elapsed_ms
Summary(data, clock) ==
    [kind |-> "summary",
     recording_info |->
         [duration_ms         |-> SpanMs(data),
          sample_count        |-> Len(data),
          sampling_rate_hz    |-> SamplingRate(data),
          recording_timestamp |-> clock],
     left_flexion    |-> ChannelStats(Channel(data, "left_flexion")),
     right_flexion   |-> ChannelStats(Channel(data, "right_flexion")),
     left_abduction  |-> ChannelStats(Channel(data, "left_abduction")),
     right_abduction |-> ChannelStats(Channel(data, "right_abduction")),
     symmetry_metrics |->
         [flexion   |-> Symmetry(Channel(data, "left_flexion"),
                                 Channel(data, "right_flexion")),
          abduction |-> Symmetry(Channel(data, "left_abduction"),
                                 Channel(data, "right_abduction"))]]

\* a compute_statistics without the "if not self.recording_data" guard, which
\* reports an all-zero summary for the empty buffer
compute_statistics_zeros(data, clock) ==
    IF data = <<>>
    THEN [kind |-> "summary",
          recording_info |-> [duration_ms |-> 0, sample_count |-> 0,
                              sampling_rate_hz |-> [num |-> 0, den |-> 1],
                              recording_timestamp |-> clock]]
    ELSE IF SpanMs(data) = 0 THEN [kind |-> "raise", exc |-> "ZeroDivisionError"]
    ELSE Summary(data, clock)

\* compute_statistics: kind "None" (the no-data result), "raise" (exc names the
\* exception) or "summary"
compute_statistics(data, clock) ==
    IF data = <<>> THEN [kind |-> "None"]
    ELSE IF SpanMs(data) = 0 THEN [kind |-> "raise", exc |-> "ZeroDivisionError"]
    ELSE Summary(data, clock)

----------------------------------------------------------------------------
(* AssessmentServer, lines 362-535 *)

\* msg_type of a frontend message; "unknown" stands for every other type
Commands == {"start_calibration", "start_flexion_calibration", "start_task", "unknown"}

Msg(type, status) == [type |-> type, status |-> status]

RemoveAt(seq, i) == [k \in 1..(Len(seq) - 1) |-> IF k < i THEN seq[k] ELSE seq[k + 1]]

IdsIn(samples) == {samples[k].id : k \in 1..Len(samples)}

NoHandler == [cmd |-> "", outcome |-> "none", uncal |-> FALSE, missing |-> {}]

\* a window: one "async with websockets.connect(...)" block and its loop state
NewWindow(kind) ==
    [kind |-> kind,
     start_time |-> now,    \* start_time / recording_start_time = time.time()
     start |-> None,        \* collect_samples: start
     prev_t |-> None,       \* handle_start_task: prev_t
     samples |-> <<>>,      \* collect_samples: samples
     nframes |-> 0,         \* frames received so far
     lastElapsed |-> 0,     \* wall-clock elapsed when the last frame was received
     mine |-> <<>>]         \* the samples this window's handler gave the recorder

\* a handle_client that starts each handler without awaiting it
HandlerIdleNoAwait(c) == TRUE

\* handle_client awaits each handler: the next command is read only after the
\* handler of the previous one has returned
HandlerIdle(c) == windows[c] = <<>>

\* collect_samples: "elapsed % 1 < 0.1"
CollectProgressDue(elapsed) == elapsed % 10 = 0

\* handle_start_task: "int(elapsed) != int(elapsed - 0.1)"
TaskProgressDue(elapsed) == DivTrunc(elapsed, 10) # DivTrunc(elapsed - 1, 10)

\* collect_samples: "(t - start) > duration_s * 1000"
CollectEnded(t, start) == (t - start) > DurationS * 1000

\* handle_start_task: "elapsed > 10.0"
TaskEnded(elapsed) == elapsed > DurationS * 10

\* a dt taken from the timestamps whatever their order
FrameDtNoDefault(prev_t, t) ==
    IF prev_t = None THEN DefaultDtMs ELSE t - prev_t[1]

\* handle_start_task: dt from the frame timestamps, milliseconds
FrameDt(prev_t, t) ==
    IF prev_t = None THEN DefaultDtMs
    ELSE IF t - prev_t[1] > 0 THEN t - prev_t[1] ELSE DefaultDtMs

\* np.linalg.norm([gx, gy, gz]), rounded down to a whole deg/s
GyrNorm(gyr) ==
    LET s == gyr[1] * gyr[1] + gyr[2] * gyr[2]
    IN  CHOOSE n \in 0..(Abs(gyr[1]) + Abs(gyr[2])) : n * n <= s /\ s < (n + 1) * (n + 1)

\* float(np.mean(gyr_norms)) if gyr_norms else 0.0
MeanGyrNorm(imus) ==
    IF imus = <<>> THEN 0
    ELSE DivTrunc(SumSeq([k \in 1..Len(imus) |-> GyrNorm(imus[k].gyr)]), Len(imus))

\* websockets.serve: a frontend connects and handle_client starts
Connect(c) ==
    /\ connState[c] = "new"
    /\ \A d \in Conns : d < c => connState[d] # "new"
    /\ connState' = [connState EXCEPT ![c] = "open"]
    /\ frontend_client' = Some(c)
    /\ UNCHANGED <<now, inbox, ncmds, windows, sent, handler,
                   calibVars, imuVars, recVars, recOp>>

\* the frontend sends a command
FrontendSend(c, cmd) ==
    /\ connState[c] = "open"
    /\ ncmds < MaxCmds
    /\ Len(inbox[c]) < MaxInbox
    /\ inbox' = [inbox EXCEPT ![c] = Append(@, cmd)]
    /\ ncmds' = ncmds + 1
    /\ UNCHANGED <<now, connState, windows, sent, handler, frontend_client,
                   calibVars, imuVars, recVars, recOp>>

\* handle_client reads the next command and runs its handler up to the
\* handler's first "await ws.recv()"
Dispatch(c) ==
    /\ connState[c] = "open"
    /\ HandlerIdle(c)
    /\ inbox[c] # <<>>
    /\ inbox' = [inbox EXCEPT ![c] = Tail(@)]
    /\ LET cmd == Head(inbox[c]) IN
       CASE cmd = "start_calibration" ->
              /\ sent' = [sent EXCEPT ![c] = <<Msg("calibration_status", "running")>>]
              /\ windows' = [windows EXCEPT ![c] = Append(@, NewWindow("static"))]
              /\ handler' = [handler EXCEPT ![c] =
                                [NoHandler EXCEPT !.cmd = cmd, !.outcome = "running"]]
              /\ UNCHANGED recVars
         [] cmd = "start_flexion_calibration" ->
              /\ sent' = [sent EXCEPT ![c] = <<Msg("flexion_calibration_status", "running")>>]
              /\ windows' = [windows EXCEPT ![c] = Append(@, NewWindow("flexion"))]
              /\ handler' = [handler EXCEPT ![c] =
                                [NoHandler EXCEPT !.cmd = cmd, !.outcome = "running"]]
              /\ UNCHANGED recVars
         [] cmd = "start_task" ->
              /\ sent' = [sent EXCEPT ![c] = <<Msg("task_status", "running")>>]
              /\ recording_data' = start_recording_data(recording_data)
              /\ recording_start' = Some(now)
              /\ is_recording' = TRUE
              /\ windows' = [windows EXCEPT ![c] = Append(@, NewWindow("task"))]
              /\ handler' = [handler EXCEPT ![c] =
                                [NoHandler EXCEPT !.cmd = cmd, !.outcome = "running",
                                                  !.uncal = ~calibrated]]
         [] OTHER ->
              /\ sent' = [sent EXCEPT ![c] = <<>>]
              /\ handler' = [handler EXCEPT ![c] =
                                [NoHandler EXCEPT !.cmd = cmd, !.outcome = "done"]]
              /\ UNCHANGED <<windows, recVars>>
    /\ UNCHANGED <<now, connState, ncmds, frontend_client, calibVars, imuVars, recOp>>

\* collect_samples: a frame that does not end the window is buffered
CollectFrame(c, i, f) ==
    /\ i \in 1..Len(windows[c])
    /\ LET w == windows[c][i]
           start == IF w.start = None THEN f.t ELSE w.start[1]
           elapsed == now - w.start_time
       IN  /\ w.kind \in {"static", "flexion"}
           /\ w.nframes + 1 < MaxFrames
           /\ ~CollectEnded(f.t, start)
           /\ sent' = [sent EXCEPT ![c] =
                          IF CollectProgressDue(elapsed)
                          THEN Append(@, Msg("progress", "")) ELSE @]
           /\ windows' = [windows EXCEPT ![c][i] =
                             [w EXCEPT !.start = Some(start),
                                       !.samples = w.samples \o f.imus,
                                       !.nframes = w.nframes + 1,
                                       !.lastElapsed = elapsed]]
    /\ UNCHANGED <<now, connState, inbox, ncmds, handler, frontend_client,
                   calibVars, imuVars, recVars, recOp>>

\* handle_start_calibration: the frame that ends the static window
StaticWindowEnd(c, i, f) ==
    /\ i \in 1..Len(windows[c])
    /\ LET w == windows[c][i]
           start == IF w.start = None THEN f.t ELSE w.start[1]
           elapsed == now - w.start_time
       IN  /\ w.kind = "static"
           /\ w.nframes < MaxFrames
           /\ CollectEnded(f.t, start)
           /\ static_samples' = Some(w.samples)
           /\ sent' = [sent EXCEPT ![c] =
                          (IF CollectProgressDue(elapsed)
                           THEN Append(@, Msg("progress", "")) ELSE @)
                          \o <<Msg("calibration_status", "complete")>>]
           /\ windows' = [windows EXCEPT ![c] = RemoveAt(@, i)]
           /\ handler' = [handler EXCEPT ![c].outcome = "done",
                                         ![c].missing = ImuIds \ IdsIn(w.samples)]
    /\ UNCHANGED <<now, connState, inbox, ncmds, frontend_client,
                   flexion_samples, imuVars, recVars, recOp>>

\* handle_start_flexion_calibration: the frame that ends the flexion window,
\* init_filters and run_anatomical_calibration
FlexionWindowEnd(c, i, f) ==
    /\ i \in 1..Len(windows[c])
    /\ LET w == windows[c][i]
           start == IF w.start = None THEN f.t ELSE w.start[1]
           elapsed == now - w.start_time
           res == run_anatomical_calibration(q_sensor_to_anat, static_samples,
                                             Some(w.samples))
           qs == init_filters_quaternions(quaternions, ImuIds)
           neutral == capture_neutral_knees(qs, res.q_sa)
           sent1 == IF CollectProgressDue(elapsed)
                    THEN Append(sent[c], Msg("progress", "")) ELSE sent[c]
       IN  /\ w.kind = "flexion"
           /\ w.nframes < MaxFrames
           /\ CollectEnded(f.t, start)
           /\ flexion_samples' = Some(w.samples)
           /\ filters' = init_filters_filters(filters, ImuIds)
           /\ quaternions' = qs
           /\ q_sensor_to_anat' = res.q_sa
           /\ windows' = [windows EXCEPT ![c] = RemoveAt(@, i)]
           /\ IF res.exc = ""
              THEN /\ calibrated' = TRUE
                   /\ neutral_knee_left' = Some(neutral.left)
                   /\ neutral_knee_right' = Some(neutral.right)
                   /\ sent' = [sent EXCEPT ![c] = Append(sent1, Msg("calibration_done", ""))]
                   /\ handler' = [handler EXCEPT ![c].outcome = "done"]
                   /\ UNCHANGED <<connState, frontend_client>>
              ELSE \* the exception leaves handle_client: "finally" runs, the
                   \* connection is closed
                   /\ sent' = [sent EXCEPT ![c] = sent1]
                   /\ handler' = [handler EXCEPT ![c].outcome = res.exc]
                   /\ connState' = [connState EXCEPT ![c] = "closed"]
                   /\ frontend_client' = None
                   /\ UNCHANGED <<calibrated, neutral_knee_left, neutral_knee_right>>
    /\ UNCHANGED <<now, inbox, ncmds, static_samples, gyr_norm_all, recVars, recOp>>

\* handle_start_task: one frame of the task loop, from "await imu_ws.recv()"
\* round to the elapsed check at the top of the loop, which lets the window go on
TaskFrame(c, i, f) ==
    /\ i \in 1..Len(windows[c])
    /\ LET w == windows[c][i]
           dt == FrameDt(w.prev_t, f.t)
           qs == UpdateAll(filters, quaternions, f.imus, dt)
           gnorm == MeanGyrNorm(f.imus)
           angles == compute_knee_angles(calibrated, neutral_knee_left,
                                         neutral_knee_right, qs, q_sensor_to_anat, gnorm)
           data == IF angles # None
                   THEN add_sample(recording_data, recording_start, is_recording,
                                   now, f.t, angles[1])
                   ELSE recording_data
           elapsed == now - w.start_time
       IN  /\ w.kind = "task"
           /\ w.nframes + 1 < MaxFrames
           /\ ~TaskEnded(elapsed)
           /\ quaternions' = qs
           /\ gyr_norm_all' = gnorm
           /\ recording_data' = data
           /\ sent' = [sent EXCEPT ![c] =
                          IF TaskProgressDue(elapsed)
                          THEN Append(@, Msg("task_progress", "")) ELSE @]
           /\ windows' = [windows EXCEPT ![c][i] =
                             [w EXCEPT !.prev_t = Some(f.t),
                                       !.nframes = w.nframes + 1,
                                       !.lastElapsed = elapsed,
                                       !.mine = IF data # recording_data
                                                THEN Append(@, data[Len(data)]) ELSE @]]
    /\ UNCHANGED <<now, connState, inbox, ncmds, handler, frontend_client, calibVars,
                   filters, q_sensor_to_anat, calibrated, neutral_knee_left,
                   neutral_knee_right, recording_start, is_recording, recOp>>

\* handle_start_task: the frame after which "elapsed > 10.0" holds; the recorder
\* is stopped, the statistics are computed and the result or an error is sent
TaskWindowEnd(c, i, f) ==
    /\ i \in 1..Len(windows[c])
    /\ LET w == windows[c][i]
           dt == FrameDt(w.prev_t, f.t)
           qs == UpdateAll(filters, quaternions, f.imus, dt)
           gnorm == MeanGyrNorm(f.imus)
           angles == compute_knee_angles(calibrated, neutral_knee_left,
                                         neutral_knee_right, qs, q_sensor_to_anat, gnorm)
           data == IF angles # None
                   THEN add_sample(recording_data, recording_start, is_recording,
                                   now, f.t, angles[1])
                   ELSE recording_data
           elapsed == now - w.start_time
           statistics == compute_statistics(data, now)
       IN  /\ w.kind = "task"
           /\ w.nframes < MaxFrames
           /\ TaskEnded(elapsed)
           /\ quaternions' = qs
           /\ gyr_norm_all' = gnorm
           /\ recording_data' = data
           /\ is_recording' = FALSE
           /\ windows' = [windows EXCEPT ![c] = RemoveAt(@, i)]
           /\ CASE statistics.kind = "summary" ->
                     /\ sent' = [sent EXCEPT ![c] = Append(@, Msg("task_result", ""))]
                     /\ handler' = [handler EXCEPT ![c].outcome = "done"]
                     /\ UNCHANGED <<connState, frontend_client>>
                [] statistics.kind = "None" ->
                     /\ sent' = [sent EXCEPT ![c] = Append(@, Msg("error", ""))]
                     /\ handler' = [handler EXCEPT ![c].outcome = "done"]
                     /\ UNCHANGED <<connState, frontend_client>>
                [] OTHER ->
                     /\ handler' = [handler EXCEPT ![c].outcome = statistics.exc]
                     /\ connState' = [connState EXCEPT ![c] = "closed"]
                     /\ frontend_client' = None
                     /\ UNCHANGED sent
    /\ UNCHANGED <<now, inbox, ncmds, calibVars, filters, q_sensor_to_anat, calibrated,
                   neutral_knee_left, neutral_knee_right, recording_start, recOp>>

StreamExceptions == {"ConnectionClosed", "JSONDecodeError"}

\* "await ws.recv()" raises (the sensor stream closed) or json.loads / data["t"]
\* raises (an unparsable frame): the exception leaves the handler and
\* handle_client, whose "finally" runs, and the connection is closed
StreamFail(c, i, exc) ==
    /\ i \in 1..Len(windows[c])
    /\ windows' = [windows EXCEPT ![c] = RemoveAt(@, i)]
    /\ handler' = [handler EXCEPT ![c].outcome = exc]
    /\ connState' = [connState EXCEPT ![c] = "closed"]
    /\ frontend_client' = None
    /\ UNCHANGED <<now, inbox, ncmds, sent, calibVars, imuVars, recVars, recOp>>

\* wall-clock time passes
Tick(d) ==
    /\ now + d <= MaxTicks * TickUnit
    /\ now' = now + d
    /\ UNCHANGED <<serverVars, calibVars, imuVars, recVars, recOp>>

\* the record of a recorder call: the recorder's fields before the call, the
\* arguments of add_sample, what the call returned or raised, the
\* (timestamp, angles) arguments of the add_sample calls made while RECORDING
\* since the last start_recording, the number of entries that start_recording
\* found in the buffer, and, for a compute_statistics that directly follows
\* another one, what that one returned.
\* The record of an IMUSystem call: for compute_knee_angles the fields of the
\* IMUSystem before the call (imu, also kept for an update_filter of an id
\* without a filter and for a run_anatomical_calibration that raised on a
\* calibrated system), the relative quaternions before and after
\* maybe_reanchor_neutral (work) and the call it directly follows (prev); for
\* every call the neutral poses and q_sensor_to_anat as the last
\* run_anatomical_calibration left them (calib).
NoRecOp == [name |-> "", exc |-> "",
            before |-> [data |-> <<>>, start |-> None, flag |-> FALSE],
            args |-> <<>>, result |-> [kind |-> ""], since |-> <<>>, found |-> 0,
            prev |-> None, imu |-> None, work |-> None,
            calib |-> [nl |-> None, nr |-> None, q_sa |-> <<>>]]

\* AssessmentServer.__init__, IMUSystem.__init__, JumpLandingRecorder.__init__
Init ==
    /\ now = 0
    /\ connState = [c \in Conns |-> "new"]
    /\ inbox = [c \in Conns |-> <<>>]
    /\ ncmds = 0
    /\ windows = [c \in Conns |-> <<>>]
    /\ sent = [c \in Conns |-> <<>>]
    /\ handler = [c \in Conns |-> NoHandler]
    /\ frontend_client = None
    /\ static_samples = None
    /\ flexion_samples = None
    /\ filters = {}
    /\ quaternions = <<>>
    /\ q_sensor_to_anat = <<>>
    /\ calibrated = FALSE
    /\ neutral_knee_left = None
    /\ neutral_knee_right = None
    /\ gyr_norm_all = 0
    /\ recording_data = <<>>
    /\ recording_start = None
    /\ is_recording = FALSE
    /\ recOp = NoRecOp

Next ==
    \/ \E c \in Conns : Connect(c)
    \/ \E c \in Conns, cmd \in Commands : FrontendSend(c, cmd)
    \/ \E c \in Conns : Dispatch(c)
    \/ \E c \in Conns, i \in 1..MaxCmds, f \in Frames : CollectFrame(c, i, f)
    \/ \E c \in Conns, i \in 1..MaxCmds, f \in Frames : StaticWindowEnd(c, i, f)
    \/ \E c \in Conns, i \in 1..MaxCmds, f \in Frames : FlexionWindowEnd(c, i, f)
    \/ \E c \in Conns, i \in 1..MaxCmds, f \in Frames : TaskFrame(c, i, f)
    \/ \E c \in Conns, i \in 1..MaxCmds, f \in Frames : TaskWindowEnd(c, i, f)
    \/ \E c \in Conns, i \in 1..MaxCmds, exc \in StreamExceptions : StreamFail(c, i, exc)
    \/ \E d \in TickSteps : Tick(d)

Spec == Init /\ [][Next]_vars

----------------------------------------------------------------------------
(* The recorder driven call by call: any sequence of start_recording,        *)
(* add_sample, stop_recording and compute_statistics, as time passes.        *)

AngleInputs ==
    {[left_flexion |-> 0, right_flexion |-> 0, left_abduction |-> 0, right_abduction |-> 0],
     [left_flexion |-> 300, right_flexion |-> 300, left_abduction |-> 20, right_abduction |-> 20],
     [left_flexion |-> 450, right_flexion |-> -150, left_abduction |-> -30, right_abduction |-> 60]}

RecorderBefore == [data |-> recording_data, start |-> recording_start, flag |-> is_recording]

RecStartRecording ==
    /\ recording_data' = start_recording_data(recording_data)
    /\ recording_start' = Some(now)
    /\ is_recording' = TRUE
    /\ recOp' = [NoRecOp EXCEPT !.name = "start_recording", !.before = RecorderBefore,
                                !.found = Len(recording_data)]
    /\ UNCHANGED <<now, serverVars, calibVars, imuVars>>

RecStopRecording ==
    /\ is_recording' = FALSE
    /\ recOp' = [NoRecOp EXCEPT !.name = "stop_recording", !.before = RecorderBefore,
                                !.exc = stop_recording_exc(recording_start),
                                !.since = recOp.since, !.found = recOp.found]
    /\ UNCHANGED <<now, serverVars, calibVars, imuVars, recording_data, recording_start>>

RecAddSample(timestamp, angles) ==
    /\ Len(recording_data) < MaxRec
    /\ recording_data' = add_sample(recording_data, recording_start, is_recording,
                                    now, timestamp, angles)
    /\ recOp' = [NoRecOp EXCEPT !.name = "add_sample", !.before = RecorderBefore,
                                !.args = <<timestamp, angles>>,
                                !.found = recOp.found,
                                !.since = IF is_recording
                                          THEN Append(recOp.since, <<timestamp, angles>>)
                                          ELSE recOp.since]
    /\ UNCHANGED <<now, serverVars, calibVars, imuVars, recording_start, is_recording>>

RecComputeStatistics ==
    /\ recOp' = [NoRecOp EXCEPT !.name = "compute_statistics", !.before = RecorderBefore,
                                !.result = compute_statistics(recording_data, now),
                                !.since = recOp.since, !.found = recOp.found,
                                !.prev = IF recOp.name = "compute_statistics"
                                         THEN Some(recOp.result) ELSE None]
    /\ UNCHANGED <<now, serverVars, calibVars, imuVars, recVars>>

NextRecorder ==
    \/ RecStartRecording
    \/ RecStopRecording
    \/ \E t \in FrameTimes, a \in AngleInputs : RecAddSample(t, a)
    \/ RecComputeStatistics
    \/ \E d \in TickSteps : Tick(d)

SpecRecorder == Init /\ [][NextRecorder]_vars

----------------------------------------------------------------------------
(* The IMUSystem driven call by call, with the calls the handlers make:      *)
(* init_filters followed by run_anatomical_calibration (the flexion          *)
(* calibration handler), the update_filter call of the task loop for one     *)
(* reading, the task loop's assignment to gyr_norm_all and                   *)
(* compute_knee_angles, in any order.                                        *)

ImuRate == 100      \* deg/s
MaxAngle == 50      \* the filters' roll and pitch stay within this, tenths of a degree
UnknownImu == 7     \* an id outside MODE_1_IMUS

\* the shanks flex and swing; UnknownImu is an id no filter exists for
ImuUpdateIds == {0, 1, UnknownImu}
ImuRates == {<<ImuRate, 0>>, <<0, -5 * ImuRate>>}

\* (prev_t, t) of a frame: the first frame of a window, a timestamp that went
\* back, a repeated timestamp, a later timestamp
ImuFramePairs == {<<None, 0>>, <<Some(50), 0>>, <<Some(50), 50>>, <<Some(0), 50>>}

\* gyr_norm_all is 0 after construction; the task loop sets it to the gate's
\* threshold
GyrNorms == {ReanchorDeg}

\* static_samples: None before any static window, or one frame's readings
StaticInputs == {None} \cup {Some(ims) : ims \in FrameImus}

\* flexion_samples: one frame's readings, taken while the legs move or with
\* sensor 3 silent
FlexionInputs ==
    {Some(ims) : ims \in {f \in FrameImus : Len(f) < 4 \/ f[1].gyr # <<0, 0>>}}

ImuFields ==
    [calibrated |-> calibrated, neutral_knee_left |-> neutral_knee_left,
     neutral_knee_right |-> neutral_knee_right, quaternions |-> quaternions,
     q_sensor_to_anat |-> q_sensor_to_anat, gyr_norm_all |-> gyr_norm_all,
     filters |-> filters]

\* handle_start_task, one reading of a frame: dt from the timestamps of the
\* previous and of this frame, then update_filter
ImuUpdateFilter(imu_id, gyr, prev_t, t) ==
    LET dt == FrameDt(prev_t, t)
        qs == update_filter(filters, quaternions, imu_id, 0, gyr, dt)
    IN  /\ \A i \in DOMAIN qs : Abs(qs[i][1]) <= MaxAngle /\ Abs(qs[i][2]) <= MaxAngle
        /\ quaternions' = qs
        /\ recOp' = [NoRecOp EXCEPT !.name = "update_filter",
                                    !.args = [imu_id |-> imu_id, prev_t |-> prev_t,
                                              t |-> t, dt |-> dt,
                                              known |-> imu_id \in filters],
                                    !.imu = IF imu_id \in filters THEN None
                                            ELSE Some(ImuFields),
                                    !.calib = recOp.calib]
        /\ UNCHANGED <<now, serverVars, calibVars, recVars, filters, q_sensor_to_anat,
                       calibrated, neutral_knee_left, neutral_knee_right, gyr_norm_all>>

\* handle_start_task: "self.imu_system.gyr_norm_all = ..."
ImuSetGyrNorm(g) ==
    /\ gyr_norm_all' = g
    /\ recOp' = [NoRecOp EXCEPT !.name = "gyr_norm_all", !.calib = recOp.calib]
    /\ UNCHANGED <<now, serverVars, calibVars, recVars, filters, quaternions,
                   q_sensor_to_anat, calibrated, neutral_knee_left, neutral_knee_right>>

\* handle_start_flexion_calibration: init_filters(MODE_1_IMUS), then
\* run_anatomical_calibration
ImuCalibrate(ss, fsamp) ==
    \E res \in {run_anatomical_calibration(q_sensor_to_anat, ss, fsamp)} :
    LET qs == init_filters_quaternions(quaternions, ImuIds)
        neutral == capture_neutral_knees(qs, res.q_sa)
        nl == IF res.exc = "" THEN Some(neutral.left) ELSE neutral_knee_left
        nr == IF res.exc = "" THEN Some(neutral.right) ELSE neutral_knee_right
    IN  /\ filters' = init_filters_filters(filters, ImuIds)
        /\ quaternions' = qs
        /\ q_sensor_to_anat' = res.q_sa
        /\ calibrated' = (calibrated \/ res.exc = "")
        /\ neutral_knee_left' = nl
        /\ neutral_knee_right' = nr
        /\ recOp' = [NoRecOp EXCEPT !.name = "run_anatomical_calibration",
                                    !.exc = res.exc,
                                    !.imu = IF calibrated /\ res.exc # ""
                                            THEN Some(ImuFields) ELSE None,
                                    !.calib = [nl |-> nl, nr |-> nr, q_sa |-> res.q_sa]]
        /\ UNCHANGED <<now, serverVars, calibVars, recVars, gyr_norm_all>>

ImuComputeKneeAngles ==
    LET angles == compute_knee_angles(calibrated, neutral_knee_left, neutral_knee_right,
                                      quaternions, q_sensor_to_anat, gyr_norm_all)
        ready == neutral_knee_left # None /\ neutral_knee_right # None
        rel == KneeRelative(neutral_knee_left, neutral_knee_right,
                            quaternions, q_sensor_to_anat)
        stored == compute_knee_angles_stored(neutral_knee_left, neutral_knee_right,
                                             q_sensor_to_anat)
    IN  /\ neutral_knee_left' = stored.nl
        /\ neutral_knee_right' = stored.nr
        /\ q_sensor_to_anat' = stored.q_sa
        /\ recOp' = [NoRecOp EXCEPT
                        !.name = "compute_knee_angles",
                        !.imu = Some(ImuFields),
                        !.result = angles,
                        !.work = IF angles = None \/ ~ready THEN None
                                 ELSE Some([rel |-> rel,
                                            re |-> maybe_reanchor_neutral(
                                                     rel.left, rel.right, gyr_norm_all,
                                                     neutral_knee_left,
                                                     neutral_knee_right)]),
                        !.prev = Some([name |-> recOp.name, exc |-> recOp.exc]),
                        !.calib = recOp.calib]
        /\ UNCHANGED <<now, serverVars, calibVars, recVars, filters, quaternions,
                       calibrated, gyr_norm_all>>

NextImu ==
    \/ \E i \in ImuUpdateIds, g \in ImuRates, pt \in ImuFramePairs :
          ImuUpdateFilter(i, g, pt[1], pt[2])
    \/ \E g \in GyrNorms : ImuSetGyrNorm(g)
    \/ \E ss \in StaticInputs, fsamp \in FlexionInputs :
          ImuCalibrate(ss, fsamp)
    \/ ImuComputeKneeAngles

SpecImu == Init /\ [][NextImu]_vars

----------------------------------------------------------------------------
(* Claims *)

HasMsg(c, type) == \E k \in 1..Len(sent[c]) : sent[c][k].type = type

TaskInProgress(c) == \E i \in 1..Len(windows[c]) : windows[c][i].kind = "task"

CalibrationExceptions == {"ValueError", "TypeError"}

\* C1: a task started before calibration has completed records no sample, never
\* gets a task_result, and when its window has run the frontend has received an
\* error event.
C1_UncalibratedTaskYieldsError ==
    \A c \in Conns :
        (handler[c].cmd = "start_task" /\ handler[c].uncal) =>
            /\ ~HasMsg(c, "task_result")
            /\ \A i \in 1..Len(windows[c]) : windows[c][i].mine = <<>>
            /\ handler[c].outcome = "done" => HasMsg(c, "error")

\* C2: a static window that ended with no sample for one of the ids 0..3 ended
\* in a calibration error, and while the static samples lack an id no flexion
\* calibration runs, so that the system is not calibrated from them.
C2_StaticMissingSensorHalts ==
    /\ \A c \in Conns :
          (handler[c].cmd = "start_calibration" /\ handler[c].missing # {}) =>
              handler[c].outcome \in CalibrationExceptions
    /\ (static_samples # None /\ ImuIds \ IdsIn(static_samples[1]) # {}) =>
          \A c \in Conns : handler[c].cmd # "start_flexion_calibration"

\* C3: a calibration that failed for missing input has sent the frontend an
\* error event and left the connection open for further commands.
C3_CalibrationFailureSurfaced ==
    \A c \in Conns :
        (handler[c].cmd = "start_flexion_calibration"
            /\ handler[c].outcome \in CalibrationExceptions) =>
            /\ HasMsg(c, "error")
            /\ connState[c] = "open"

\* C4: when the sensor stream closed or delivered an unparsable frame during a
\* task window, the frontend has been sent an error event and the recorder is
\* not RECORDING.
C4_StreamFailureReleasesRecorder ==
    \A c \in Conns :
        (handler[c].cmd = "start_task" /\ handler[c].outcome \in StreamExceptions) =>
            /\ HasMsg(c, "error")
            /\ ~is_recording

\* C5: while a task is in progress on one connection, the recording it uses
\* (buffer, start time, flag) and the calibration it started with are as that
\* connection's own handler left them: no other connection has changed them.
C5_SessionsIsolated ==
    \A c \in Conns : \A i \in 1..Len(windows[c]) :
        windows[c][i].kind = "task" =>
            /\ recording_data = windows[c][i].mine
            /\ recording_start = Some(windows[c][i].start_time)
            /\ is_recording
            /\ calibrated = ~handler[c].uncal

\* C6: within one connection at most one sensor-stream window is open at a
\* time, and it belongs to the handler being awaited; a command received
\* meanwhile waits in the connection's queue.
C6_OneWindowPerConnection ==
    \A c \in Conns :
        /\ Len(windows[c]) <= 1
        /\ windows[c] # <<>> => handler[c].outcome = "running"

\* C6 witness: a command has been received while a window is running
C6_Witness ==
    \E c \in Conns : windows[c] # <<>> /\ inbox[c] # <<>>

\* C7: no window is still open after it has received a frame more than 10 s of
\* wall-clock time after it started.
C7_WindowsEndOnWallClock ==
    \A c \in Conns : \A i \in 1..Len(windows[c]) :
        windows[c][i].lastElapsed <= DurationS * 10

\* C8: add_sample called while not RECORDING leaves the buffer, the start time
\* and the flag unchanged; called while RECORDING it appends exactly one entry,
\* the one for its arguments, at the end of the buffer.
C8_AddSampleFrame ==
    recOp.name = "add_sample" =>
        /\ recording_start = recOp.before.start
        /\ is_recording = recOp.before.flag
        /\ IF recOp.before.flag
           THEN /\ Len(recording_data) = Len(recOp.before.data) + 1
                /\ SubSeq(recording_data, 1, Len(recOp.before.data)) = recOp.before.data
                /\ recording_data[Len(recording_data)].timestamp = recOp.args[1]
                /\ recording_data[Len(recording_data)].angles = recOp.args[2]
           ELSE recording_data = recOp.before.data

\* C8 witness: add_sample was called after stop_recording on a non-empty buffer
C8_Witness ==
    /\ recOp.name = "add_sample"
    /\ ~recOp.before.flag
    /\ recOp.before.data # <<>>

\* C9: the buffer holds exactly the samples added since the most recent
\* start_recording, in the order they were added.
C9_BufferIsCurrentTask ==
    [k \in 1..Len(recording_data) |->
        <<recording_data[k].timestamp, recording_data[k].angles>>] = recOp.since

\* C9 witness: a task's samples are in the buffer after start_recording had
\* found the samples of an earlier task in it
C9_Witness ==
    /\ recOp.name = "add_sample"
    /\ recOp.before.flag
    /\ recOp.found > 0
    /\ Len(recording_data) = 1

\* C10: compute_statistics on an empty buffer returns the no-data result, in
\* every recorder state.
C10_EmptyBufferNoData ==
    (recOp.name = "compute_statistics" /\ recOp.before.data = <<>>) =>
        recOp.result.kind = "None"

\* C10 witness: compute_statistics was called on the empty buffer while RECORDING
C10_Witness ==
    /\ recOp.name = "compute_statistics"
    /\ recOp.before.data = <<>>
    /\ recOp.before.flag

\* C11: compute_statistics leaves the buffer, the start time and the recording
\* flag as they were, and a call that directly follows another one on the same
\* buffer returns the same summary.
C11_ComputeStatisticsPure ==
    recOp.name = "compute_statistics" =>
        /\ recording_data = recOp.before.data
        /\ recording_start = recOp.before.start
        /\ is_recording = recOp.before.flag
        /\ recOp.prev # None => recOp.prev[1] = recOp.result

\* C12: the sampling rate of a summary, the fraction num / den, equals
\* (sample_count - 1) / (span in seconds), the span taken from the first and
\* the last time_elapsed_ms of the buffer.
C12_SamplingRateCountMinusOne ==
    (recOp.name = "compute_statistics" /\ recOp.result.kind = "summary") =>
        LET rate == recOp.result.recording_info.sampling_rate_hz
            count == Len(recOp.before.data)
        IN  rate.num * SpanMs(recOp.before.data) = (count - 1) * 1000 * rate.den

AngleNames == {"left_flexion", "right_flexion", "left_abduction", "right_abduction"}

\* C13: compute_knee_angles returns None exactly when the system is not
\* calibrated or a neutral pose is absent, and the four angles in every other
\* state, whatever the filters hold.
C13_KneeAnglesReadyOrNone ==
    recOp.name = "compute_knee_angles" =>
        LET st == recOp.imu[1]
            notReady == \/ ~st.calibrated
                        \/ st.neutral_knee_left = None
                        \/ st.neutral_knee_right = None
        IN  IF notReady THEN recOp.result = None
            ELSE recOp.result # None /\ DOMAIN recOp.result[1] = AngleNames

\* C13 witness: compute_knee_angles was called after the only calibration so far
\* had failed, with a filter already moved away from the identity
C13_Witness ==
    /\ recOp.name = "compute_knee_angles"
    /\ recOp.result = None
    /\ 0 \in recOp.imu[1].filters
    /\ recOp.imu[1].quaternions[0] # IdentityQ

\* C14: maybe_reanchor_neutral returns the blend when flexion and abduction of
\* both sides are strictly below 5 degrees and gyr_norm_all is strictly below
\* 5 deg/s, and returns both relative quaternions unchanged in every other case.
C14_ReanchorGateStrict ==
    (recOp.name = "compute_knee_angles" /\ recOp.work # None) =>
        LET st == recOp.imu[1]
            rel == recOp.work[1].rel
            re == recOp.work[1].re
            quiet == /\ Abs(rel.left[1]) < ReanchorDeg * 10
                     /\ Abs(rel.right[1]) < ReanchorDeg * 10
                     /\ Abs(rel.left[2]) < ReanchorDeg * 10
                     /\ Abs(rel.right[2]) < ReanchorDeg * 10
                     /\ st.gyr_norm_all < ReanchorDeg
        IN  IF quiet
            THEN re = [left  |-> Blend(rel.left, st.neutral_knee_left[1]),
                       right |-> Blend(rel.right, st.neutral_knee_right[1])]
            ELSE re = rel

\* C14 witness: the left abduction is exactly 5 degrees, every other gated
\* quantity is below its threshold, and the blend would have moved the left
\* relative quaternion
C14_Witness ==
    /\ recOp.name = "compute_knee_angles"
    /\ recOp.work # None
    /\ Abs(recOp.work[1].rel.left[2]) = ReanchorDeg * 10
    /\ Abs(recOp.work[1].rel.left[1]) < ReanchorDeg * 10
    /\ Abs(recOp.work[1].rel.right[1]) < ReanchorDeg * 10
    /\ Abs(recOp.work[1].rel.right[2]) < ReanchorDeg * 10
    /\ recOp.imu[1].gyr_norm_all < ReanchorDeg
    /\ Blend(recOp.work[1].rel.left, recOp.imu[1].neutral_knee_left[1])
           # recOp.work[1].rel.left
    /\ recOp.work[1].re = recOp.work[1].rel

\* C15: compute_knee_angles called directly after a calibration that captured
\* the neutral pose returns 0 for the four angles.
C15_NeutralPoseGivesZero ==
    (recOp.name = "compute_knee_angles"
        /\ recOp.prev = Some([name |-> "run_anatomical_calibration", exc |-> ""])) =>
        /\ recOp.result # None
        /\ \A a \in AngleNames : recOp.result[1][a] = 0

\* C16: the stored neutral poses and q_sensor_to_anat are at every moment what
\* the last run_anatomical_calibration left (the values of construction before
\* any), and a compute_knee_angles call leaves them as it found them.
C16_StoredCalibrationKept ==
    /\ [nl |-> neutral_knee_left, nr |-> neutral_knee_right,
        q_sa |-> q_sensor_to_anat] = recOp.calib
    /\ recOp.name = "compute_knee_angles" =>
          /\ neutral_knee_left = recOp.imu[1].neutral_knee_left
          /\ neutral_knee_right = recOp.imu[1].neutral_knee_right
          /\ q_sensor_to_anat = recOp.imu[1].q_sensor_to_anat

\* C16 witness: compute_knee_angles applied the blend while the stored neutral
\* pose is not the identity
C16_Witness ==
    /\ recOp.name = "compute_knee_angles"
    /\ recOp.work # None
    /\ recOp.work[1].re # recOp.work[1].rel
    /\ neutral_knee_left # Some(IdentityQ)

\* C17: every message sent to a frontend has one of the types
\* calibration_status, flexion_calibration_status, calibration_done,
\* task_status, task_progress, task_result, error; the progress notifications
\* of every window are therefore of type task_progress.
C17_MessageTypes ==
    \A c \in Conns : \A k \in 1..Len(sent[c]) :
        sent[c][k].type \in
            {"calibration_status", "flexion_calibration_status", "calibration_done",
             "task_status", "task_progress", "task_result", "error"}

\* C18: each of the four emitted angles is 0 when the magnitude of its decoded
\* value is below 1 degree, and has the magnitude of its decoded value when that
\* is 1 degree or more.
C18_DeadzoneBelowOneDegree ==
    (recOp.name = "compute_knee_angles" /\ recOp.work # None) =>
        LET re == recOp.work[1].re
            decoded == [left_flexion |-> re.left[1], right_flexion |-> re.right[1],
                        left_abduction |-> re.left[2], right_abduction |-> re.right[2]]
        IN  \A a \in AngleNames :
                IF Abs(decoded[a]) < DeadzoneDeg * 10
                THEN recOp.result[1][a] = 0
                ELSE Abs(recOp.result[1][a]) = Abs(decoded[a])

\* C18 witness: the left flexion decodes to exactly 1 degree, with the gate of
\* maybe_reanchor_neutral closed, and is emitted as 1 degree
C18_Witness ==
    /\ recOp.name = "compute_knee_angles"
    /\ recOp.work # None
    /\ recOp.work[1].re.left[1] = DeadzoneDeg * 10
    /\ recOp.result[1].left_flexion = DeadzoneDeg * 10

\* C19: right_flexion is the negation of the dead-zoned roll of the right side;
\* left_flexion, left_abduction and right_abduction are the dead-zoned roll and
\* pitches themselves.
C19_RightFlexionNegated ==
    (recOp.name = "compute_knee_angles" /\ recOp.work # None) =>
        LET re == recOp.work[1].re
            dz(x) == IF Abs(x) < DeadzoneDeg * 10 THEN 0 ELSE x
        IN  /\ recOp.result[1].left_flexion = dz(re.left[1])
            /\ recOp.result[1].right_flexion = -dz(re.right[1])
            /\ recOp.result[1].left_abduction = dz(re.left[2])
            /\ recOp.result[1].right_abduction = dz(re.right[2])

\* C19 witness: both knees decode to the same flexion and the same abduction,
\* both past the dead zone
C19_Witness ==
    /\ recOp.name = "compute_knee_angles"
    /\ recOp.work # None
    /\ recOp.work[1].re.left = recOp.work[1].re.right
    /\ recOp.work[1].re.left[1] >= DeadzoneDeg * 10
    /\ recOp.work[1].re.left[2] <= -DeadzoneDeg * 10
    /\ recOp.result[1].right_flexion < 0

\* C20: the dt of an update_filter call is 0.01 s on the first frame of a window
\* and when the timestamp is not later than the previous frame's, the timestamp
\* difference in every other case, and is positive.
C20_FrameDtPositive ==
    recOp.name = "update_filter" =>
        LET a == recOp.args
        IN  /\ a.dt = (IF a.prev_t = None THEN DefaultDtMs
                       ELSE IF a.t - a.prev_t[1] <= 0 THEN DefaultDtMs
                       ELSE a.t - a.prev_t[1])
            /\ a.dt > 0

\* C20 witness: the filter of a known sensor was updated with a frame whose
\* timestamp is earlier than the previous frame's
C20_Witness ==
    /\ recOp.name = "update_filter"
    /\ recOp.args.known
    /\ recOp.args.prev_t # None
    /\ recOp.args.t < recOp.args.prev_t[1]
    /\ recOp.args.dt = DefaultDtMs

\* C21: update_filter called for an id that has no filter raises nothing and
\* leaves the filters and every stored quaternion as they were.
C21_UnknownIdIgnored ==
    (recOp.name = "update_filter" /\ ~recOp.args.known) =>
        /\ recOp.exc = ""
        /\ filters = recOp.imu[1].filters
        /\ quaternions = recOp.imu[1].quaternions

\* C21 witness: a reading of an id outside MODE_1_IMUS arrived while the four
\* filters exist and one of them has moved away from the identity
C21_Witness ==
    /\ recOp.name = "update_filter"
    /\ recOp.args.imu_id = UnknownImu
    /\ filters = ImuIds
    /\ quaternions[0] # IdentityQ

\* C22: in a summary of a buffer whose left and right flexion are equal sample
\* by sample, the flexion mean difference and maximum absolute difference are
\* 0, and likewise for abduction.
C22_SymmetryZeroOnIdenticalSeries ==
    (recOp.name = "compute_statistics" /\ recOp.result.kind = "summary") =>
        LET data == recOp.before.data
            sym == recOp.result.symmetry_metrics
        IN  /\ (\A k \in 1..Len(data) :
                    data[k].angles.left_flexion = data[k].angles.right_flexion) =>
                    (sym.flexion.difference_sum = 0 /\ sym.flexion.difference_max = 0)
            /\ (\A k \in 1..Len(data) :
                    data[k].angles.left_abduction = data[k].angles.right_abduction) =>
                    (sym.abduction.difference_sum = 0 /\ sym.abduction.difference_max = 0)

\* C22 witness: a summary of two samples with different angles, each with the
\* same left and right values
C22_Witness ==
    /\ recOp.name = "compute_statistics"
    /\ recOp.result.kind = "summary"
    /\ Len(recOp.before.data) = 2
    /\ \A k \in 1..2 :
          /\ recOp.before.data[k].angles.left_flexion
                = recOp.before.data[k].angles.right_flexion
          /\ recOp.before.data[k].angles.left_abduction
                = recOp.before.data[k].angles.right_abduction
    /\ recOp.before.data[1].angles.left_flexion # recOp.before.data[2].angles.left_flexion

\* C26: compute_statistics returns a summary for every non-empty buffer, a
\* buffer of one sample and a buffer whose first and last samples carry the
\* same time_elapsed_ms included.
C26_StatisticsTotalOnNonEmptyBuffer ==
    (recOp.name = "compute_statistics" /\ recOp.before.data # <<>>) =>
        recOp.result.kind = "summary"

\* C24: for a task window that ran to its end, the frontend received
\* task_status "running" first, then only task_progress messages, then one
\* final message that is task_result or error.
C24_TaskMessagesOrdered ==
    \A c \in Conns :
        (handler[c].cmd = "start_task"
         /\ handler[c].outcome \in {"done", "ZeroDivisionError"}) =>
            LET n == Len(sent[c])
            IN  /\ n >= 2
                /\ sent[c][1] = Msg("task_status", "running")
                /\ \A k \in 2..(n - 1) : sent[c][k].type = "task_progress"
                /\ sent[c][n].type \in {"task_result", "error"}

\* C25: a frame received in a calibration window is fed to the orientation
\* filter: a rotating reading of a sensor that has a filter changes that
\* sensor's stored orientation.
C25_CalibrationFramesFeedFilter ==
    [][\A c \in Conns, i \in 1..MaxCmds, f \in Frames :
          CollectFrame(c, i, f) =>
              \A k \in 1..Len(f.imus) :
                  (f.imus[k].id \in filters /\ f.imus[k].gyr # <<0, 0>>) =>
                      quaternions'[f.imus[k].id] # quaternions[f.imus[k].id]]_vars

\* C27: whenever the system is marked calibrated, q_sensor_to_anat holds an
\* entry for each of the ids 0, 1, 2, 3 and both neutral poses are present;
\* and no step clears the calibrated flag.
C27_CalibratedIsComplete ==
    /\ [](calibrated =>
            /\ ImuIds \subseteq DOMAIN q_sensor_to_anat
            /\ neutral_knee_left # None
            /\ neutral_knee_right # None)
    /\ [][calibrated => calibrated']_vars

\* C27 witness: the system is calibrated and the flexion window stored last
\* lacks the samples of a sensor, so the calibration run on it failed after an
\* earlier one had succeeded
C27_Witness ==
    /\ calibrated
    /\ flexion_samples # None
    /\ \E i \in ImuIds : ~HasSamples(flexion_samples[1], i)
    /\ \E c \in Conns : /\ handler[c].cmd = "start_flexion_calibration"
                         /\ handler[c].outcome = "ValueError"

\* C28: a calibration that fails on a system that is already calibrated leaves
\* the calibration quaternions of all four sensors, both neutral poses and the
\* filter quaternions as they were before the attempt.
C28_FailedRecalibrationKeepsCalibration ==
    (recOp.name = "run_anatomical_calibration" /\ recOp.exc = "ValueError"
     /\ recOp.imu # None) =>
        /\ q_sensor_to_anat = recOp.imu[1].q_sensor_to_anat
        /\ neutral_knee_left = recOp.imu[1].neutral_knee_left
        /\ neutral_knee_right = recOp.imu[1].neutral_knee_right
        /\ quaternions = recOp.imu[1].quaternions

====
